---- MODULE Spec2Model ----
(***************************************************************************)
(* Pipeline orchestration core: Execution records driven by the queued     *)
(* jobs execute_pipeline / monitor_execution / cancel_pipeline and the     *)
(* Airflow REST boundary, Schedule records driven by the schedule API and  *)
(* the periodic check_scheduled_pipelines scan, and the graph routines     *)
(* build_path / validate_pipeline / validate_config.                       *)
(***************************************************************************)
EXTENDS Integers, Sequences, FiniteSets, TLC

VARIABLES
    executions,   \* pipeline_executions rows: id -> row
    dagRuns,      \* DAG runs held by Airflow: dag_run_id -> run
    queue,        \* Celery jobs in flight (cancel_pipeline, monitor_execution)
    dispatching,  \* ids whose execute_pipeline task is between its two commits
    dagFiles,     \* DAG files DAGGenerator.update_dag has written
    now,          \* datetime.utcnow(), in whole seconds
    nodes,        \* ids of the nodes of the pipeline graph under analysis
    edges,        \* its edge list, in the order of the request
    result,       \* what the last graph routine returned
    schedules,    \* schedules rows: id -> row
    scans,        \* check_scheduled_pipelines tasks in progress: worker -> task
    dispatched    \* execute_pipeline jobs submitted for schedules, in order

vars == <<executions, dagRuns, queue, dispatching, dagFiles, now, nodes, edges,
          result, schedules, scans, dispatched>>

execVars == <<executions, dagRuns, queue, dispatching, dagFiles>>

graphVars == <<nodes, edges, result>>

schedVars == <<schedules, scans, dispatched>>

(***************************************************************************)
(* Bounds of the model.                                                    *)
(***************************************************************************)
MaxExec == 1
MaxTime == 1

ExecIds == 1..MaxExec

(***************************************************************************)
(* Values.  None is Python's None.  A timestamp column holds an ISO-8601   *)
(* string: datetime.utcnow().isoformat() carries no UTC offset (naive),    *)
(* the dates of the Airflow REST API carry one (aware).                    *)
(***************************************************************************)
None == <<>>

\* A column that holds a value.
Some(x) == <<x>>

IsoNaive(t) == <<"naive", t>>

IsoAware(t) == <<"aware", t>>

\* datetime.fromisoformat(a) - datetime.fromisoformat(b) raises TypeError when
\* one operand is offset-naive and the other offset-aware.
CanSubtract(a, b) == a[1] = b[1]

\* int((end - start).total_seconds())
DurationSeconds(start, end) == Some(end[2] - start[2])

ExecStatuses == {"pending", "running", "success", "failed", "cancelled"}

TerminalStatuses == {"success", "failed", "cancelled"}

CancellableStatuses == {"pending", "running"}

\* The states of an Airflow DAG run.
AirflowStates == {"queued", "running", "success", "failed"}

\* state_mapping.get(airflow_state, "unknown")
StateMapping(airflow_state) ==
    CASE airflow_state = "running" -> "running"
      [] airflow_state = "success" -> "success"
      [] airflow_state = "failed" -> "failed"
      [] airflow_state = "queued" -> "pending"
      [] OTHER -> "unknown"

NewExecution ==
    [status |-> "pending", airflow_dag_run_id |-> None, started_at |-> None,
     completed_at |-> None, duration_seconds |-> None, error_message |-> None]

Created == DOMAIN executions

Extend(f, k, v) == [x \in (DOMAIN f) \cup {k} |-> IF x = k THEN v ELSE f[x]]

CancelJob(e) == [task |-> "cancel_pipeline", execution_id |-> e]

MonitorJob(e) == [task |-> "monitor_execution", execution_id |-> e]

\* The queue delivers at least once: a delivered job is acknowledged, or
\* stays in flight and is delivered again.
Delivered(job, redeliver) == IF redeliver THEN queue ELSE queue \ {job}

\* Pipeline.config of the pipeline the jobs run: the API stores any dict, so
\* the graph may be empty, or an extractor A feeding a loader C.
PipelineConfigs ==
    { [nodes |-> {}, edges |-> <<>>],
      [nodes |-> {"A", "C"}, edges |-> <<[source |-> "A", target |-> "C"]>>] }

\* update_dag writing the time of generation into the file.
UpdateDagStamped(pipeline_config) ==
    [dag_id |-> "pipeline_1", nodes |-> pipeline_config.nodes,
     edges |-> pipeline_config.edges, generated_at |-> now]

\* DAGGenerator.update_dag: the DAG file is a function of the pipeline's
\* graph alone (identical input, identical artifact).
UpdateDag(pipeline_config) ==
    [dag_id |-> "pipeline_1", nodes |-> pipeline_config.nodes,
     edges |-> pipeline_config.edges]

Init ==
    /\ executions = <<>>
    /\ dagRuns = <<>>
    /\ queue = {}
    /\ dispatching = {}
    /\ dagFiles = {}
    /\ now = 0
    /\ \E config \in PipelineConfigs :
          /\ nodes = config.nodes
          /\ edges = config.edges
    /\ result = [op |-> "none"]
    /\ schedules = <<>>
    /\ scans = <<>>
    /\ dispatched = <<>>

(***************************************************************************)
(* POST /pipelines/{id}/execute: creates the Execution row in pending and  *)
(* submits nothing.                                                        *)
(***************************************************************************)
ApiExecutePipeline ==
    /\ Cardinality(Created) < MaxExec
    /\ LET e == Cardinality(Created) + 1 IN
        /\ executions' = Extend(executions, e, NewExecution)
    /\ UNCHANGED <<dagRuns, queue, dispatching, dagFiles, now>>
    /\ UNCHANGED <<graphVars, schedVars>>

(***************************************************************************)
(* execute_pipeline task, steps 1-2: the Execution row is committed in     *)
(* pending before the DAG is generated.                                    *)
(***************************************************************************)
ExecutePipelineCreateUpTo(limit) ==
    /\ Cardinality(Created) < limit
    /\ LET e == Cardinality(Created) + 1 IN
        /\ executions' = Extend(executions, e, NewExecution)
        /\ dispatching' = dispatching \cup {e}
    /\ UNCHANGED <<dagRuns, queue, dagFiles, now>>
    /\ UNCHANGED <<graphVars, schedVars>>

ExecutePipelineCreate == ExecutePipelineCreateUpTo(MaxExec)

\* Steps 3-5: update_dag and trigger_dag returned; the task writes the run id,
\* running and started_at on its row and commits.
ExecutePipelineTriggered(e) ==
    /\ e \in dispatching
    /\ LET r == e IN
        /\ dagRuns' = Extend(dagRuns, r,
                [state |-> "queued", start_date |-> None, end_date |-> None])
        /\ executions' = [executions EXCEPT
                ![e].airflow_dag_run_id = Some(r),
                ![e].status = "running",
                ![e].started_at = IsoNaive(now)]
    /\ dispatching' = dispatching \ {e}
    /\ dagFiles' = dagFiles \cup {UpdateDag([nodes |-> nodes, edges |-> edges])}
    /\ UNCHANGED <<queue, now>>
    /\ UNCHANGED <<graphVars, schedVars>>

\* The except branch: update_dag raised (no DAG file), or get_airflow_client
\* or trigger_dag raised after the DAG file was written.
ExecutePipelineFailed(e) ==
    /\ e \in dispatching
    /\ \E written \in BOOLEAN :
          dagFiles' = IF written
                      THEN dagFiles \cup {UpdateDag([nodes |-> nodes, edges |-> edges])}
                      ELSE dagFiles
    /\ executions' = [executions EXCEPT
            ![e].status = "failed",
            ![e].error_message = Some("error")]
    /\ dispatching' = dispatching \ {e}
    /\ UNCHANGED <<dagRuns, queue, now>>
    /\ UNCHANGED <<graphVars, schedVars>>

(***************************************************************************)
(* POST /executions/{id}/cancel: 400 unless the row is pending or running, *)
(* else the cancel_pipeline job is queued.                                 *)
(***************************************************************************)
ApiCancelExecution(e) ==
    /\ e \in Created
    /\ IF executions[e].status \notin CancellableStatuses
       THEN \* HTTP 400 "Cannot cancel execution with status"
            UNCHANGED queue
       ELSE queue' = queue \cup {CancelJob(e)}
    /\ UNCHANGED <<executions, dagRuns, dispatching, dagFiles, now>>
    /\ UNCHANGED <<graphVars, schedVars>>

\* PATCH dagRuns/{id} {"state": "failed"} as Airflow applies it: the run is
\* marked failed, and its end date is set when that changes its state.
PatchedFailed(run) ==
    IF run.state = "failed" THEN run
    ELSE [run EXCEPT !.state = "failed", !.end_date = IsoAware(now)]

(***************************************************************************)
(* cancel_pipeline task.                                                   *)
(***************************************************************************)
CancelPipeline(e, redeliver) ==
    /\ CancelJob(e) \in queue
    /\ queue' = Delivered(CancelJob(e), redeliver)
    /\ IF executions[e].airflow_dag_run_id = None
       THEN \* no Airflow run: just update status to cancelled
            /\ executions' = [executions EXCEPT ![e].status = "cancelled"]
            /\ UNCHANGED dagRuns
       ELSE LET r == executions[e].airflow_dag_run_id[1] IN
            \/ \* cancel_dag_run returned
               /\ dagRuns' = [dagRuns EXCEPT ![r] = PatchedFailed(dagRuns[r])]
               /\ executions' = [executions EXCEPT
                        ![e].status = "cancelled",
                        ![e].completed_at = IsoNaive(now)]
            \/ \* cancel_dag_run raised: nothing is committed
               /\ UNCHANGED <<executions, dagRuns>>
    /\ UNCHANGED <<dispatching, dagFiles, now>>
    /\ UNCHANGED <<graphVars, schedVars>>

(***************************************************************************)
(* POST /executions/{id}/monitor: queues monitor_execution for any row.    *)
(***************************************************************************)
ApiMonitorExecution(e) ==
    /\ e \in Created
    /\ queue' = queue \cup {MonitorJob(e)}
    /\ UNCHANGED <<executions, dagRuns, dispatching, dagFiles, now>>
    /\ UNCHANGED <<graphVars, schedVars>>

\* monitor_execution writing the row back without its DAG run id.
MonitoredWithoutRunId(row, run) ==
    LET started == IF run.start_date # None THEN run.start_date ELSE row.started_at
        r1 == [row EXCEPT !.status = StateMapping(run.state), !.started_at = started,
                          !.airflow_dag_run_id = None]
    IN  IF run.end_date = None THEN r1
        ELSE IF started = None
             THEN [r1 EXCEPT !.completed_at = run.end_date]
             ELSE [r1 EXCEPT !.completed_at = run.end_date,
                             !.duration_seconds = DurationSeconds(started, run.end_date)]

\* The row as monitor_execution leaves it for the run state it fetched.
Monitored(row, run) ==
    LET started == IF run.start_date # None THEN run.start_date ELSE row.started_at
        r1 == [row EXCEPT !.status = StateMapping(run.state), !.started_at = started]
    IN  IF run.end_date = None THEN r1
        ELSE IF started = None
             THEN [r1 EXCEPT !.completed_at = run.end_date]
             ELSE [r1 EXCEPT !.completed_at = run.end_date,
                             !.duration_seconds = DurationSeconds(started, run.end_date)]

\* The duration is computed from both dates when both are set; the
\* subtraction raises on a naive start with an aware end.
MonitorRaises(row, run) ==
    LET started == IF run.start_date # None THEN run.start_date ELSE row.started_at
    IN  /\ run.end_date # None
        /\ started # None
        /\ ~CanSubtract(started, run.end_date)

(***************************************************************************)
(* monitor_execution task.                                                 *)
(***************************************************************************)
MonitorExecution(e, redeliver, fetched) ==
    /\ MonitorJob(e) \in queue
    /\ queue' = Delivered(MonitorJob(e), redeliver)
    /\ IF executions[e].airflow_dag_run_id = None
       THEN \* "No Airflow DAG run ID": returns without a write
            /\ UNCHANGED executions
       ELSE LET run == dagRuns[executions[e].airflow_dag_run_id[1]] IN
            IF fetched
            THEN \* get_dag_run_status returned
               IF MonitorRaises(executions[e], run)
               THEN UNCHANGED executions
               ELSE executions' = [executions EXCEPT
                            ![e] = Monitored(executions[e], run)]
            ELSE \* get_dag_run_status raised
               /\ UNCHANGED executions
    /\ UNCHANGED <<dagRuns, dispatching, dagFiles, now>>
    /\ UNCHANGED <<graphVars, schedVars>>

(***************************************************************************)
(* Airflow runs the DAG: queued -> running -> success | failed.            *)
(***************************************************************************)
AirflowAdvance(r) ==
    /\ r \in DOMAIN dagRuns
    /\ \/ /\ dagRuns[r].state = "queued"
          /\ dagRuns' = [dagRuns EXCEPT ![r].state = "running",
                                        ![r].start_date = IsoAware(now)]
       \/ /\ dagRuns[r].state = "running"
          /\ \E s \in {"success", "failed"} :
                dagRuns' = [dagRuns EXCEPT ![r].state = s,
                                           ![r].end_date = IsoAware(now)]
    /\ UNCHANGED <<executions, queue, dispatching, dagFiles, now>>
    /\ UNCHANGED <<graphVars, schedVars>>

Tick ==
    /\ now < MaxTime
    /\ now' = now + 1
    /\ UNCHANGED execVars
    /\ UNCHANGED <<graphVars, schedVars>>

Next ==
    \/ ApiExecutePipeline
    \/ ExecutePipelineCreate
    \/ \E e \in ExecIds : ExecutePipelineTriggered(e)
    \/ \E e \in ExecIds : ExecutePipelineFailed(e)
    \/ \E e \in ExecIds : ApiCancelExecution(e)
    \/ \E e \in ExecIds, redeliver \in BOOLEAN : CancelPipeline(e, redeliver)
    \/ \E e \in ExecIds : ApiMonitorExecution(e)
    \/ \E e \in ExecIds, redeliver \in BOOLEAN, fetched \in BOOLEAN :
            MonitorExecution(e, redeliver, fetched)
    \/ \E r \in ExecIds : AirflowAdvance(r)
    \/ Tick

Spec == Init /\ [][Next]_vars

(***************************************************************************)
(* Execution claims, checked under Spec.                                   *)
(***************************************************************************)

\* C1: an Execution whose status is success, failed or cancelled never
\* changes status again, whatever dispatch, poll and cancel jobs run.
C1_TerminalStatusImmutable ==
    [][\A e \in Created :
          executions[e].status \in TerminalStatuses
              => executions'[e].status = executions[e].status]_vars

\* C2: when the orchestrator path of a dispatch fails (DAG generation or
\* trigger raised), the dispatch ends with the Execution running and
\* carrying a correlation id, not failed.
C2_FailedTriggerFallsBack ==
    [][\A e \in Created :
          ExecutePipelineFailed(e)
              => /\ executions'[e].status = "running"
                 /\ executions'[e].airflow_dag_run_id # None]_vars

\* C6: a cancel_pipeline job that finds its Execution neither pending nor
\* running leaves the row (status and timestamps) unchanged, and the cancel
\* request on such a row queues nothing.
C6_CancelOutsidePendingRunningIsNoOp ==
    [][\A e \in Created :
          executions[e].status \notin CancellableStatuses
              => /\ (\E rd \in BOOLEAN : CancelPipeline(e, rd))
                        => executions'[e] = executions[e]
                 /\ ApiCancelExecution(e) => UNCHANGED vars]_vars

AllowedTransitions ==
    {<<"pending", "running">>, <<"running", "success">>, <<"running", "failed">>,
     <<"pending", "cancelled">>, <<"running", "cancelled">>}

\* C7: the status is always one of the five statuses, and every status
\* change is pending->running, running->success, running->failed,
\* pending->cancelled or running->cancelled.
C7_OnlyStateMachineTransitions ==
    /\ [](\A e \in Created : executions[e].status \in ExecStatuses)
    /\ [][\A e \in Created :
             executions'[e].status # executions[e].status
                 => <<executions[e].status, executions'[e].status>>
                        \in AllowedTransitions]_vars

(***************************************************************************)
(* Pipeline graphs: preview_node_output.build_path, validate_pipeline and  *)
(* validate_config.  A node is {id, type}; an edge is {source, target}.    *)
(***************************************************************************)
MaxEdges == 3

\* The nodes of the reference pipeline: A extracts, B transforms, C loads.
NodeIds == {"A", "B", "C"}

NodeType(id) ==
    CASE id = "A" -> "extractor"
      [] id = "B" -> "transformer"
      [] id = "C" -> "loader"

Edge(s, t) == [source |-> s, target |-> t]

AllEdges == {Edge(s, t) : s \in NodeIds, t \in NodeIds}

EdgeLists == UNION {[1..n -> AllEdges] : n \in 0..MaxEdges}

\* incoming = [e for e in edges if e.get("target") == target_id]
Incoming(es, target_id) == SelectSeq(es, LAMBDA e : e.target = target_id)

RECURSIVE BuildPathPreOrder(_, _, _, _)
\* build_path with the current node appended before its parents are processed.
BuildPathPreOrder(ns, es, target_id, st) ==
    IF target_id \in st.visited THEN st
    ELSE LET st1 == [visited |-> st.visited \cup {target_id},
                     execution_order |->
                         IF target_id \in ns THEN Append(st.execution_order, target_id)
                         ELSE st.execution_order]
             incoming == Incoming(es, target_id)
             parents[i \in 0..Len(incoming)] ==
                 IF i = 0 THEN st1
                 ELSE BuildPathPreOrder(ns, es, incoming[i].source, parents[i - 1])
         IN  parents[Len(incoming)]

RECURSIVE BuildPath(_, _, _, _)
\* build_path(target_id) run on the closure state st = (visited, execution_order):
\* marks the target visited, recurses into the source of each incoming edge in
\* list order, then appends the target when it is a node of the request.
BuildPath(ns, es, target_id, st) ==
    IF target_id \in st.visited THEN st
    ELSE LET st1 == [st EXCEPT !.visited = @ \cup {target_id}]
             incoming == Incoming(es, target_id)
             parents[i \in 0..Len(incoming)] ==
                 IF i = 0 THEN st1
                 ELSE BuildPath(ns, es, incoming[i].source, parents[i - 1])
             st2 == parents[Len(incoming)]
         IN  IF target_id \in ns
             THEN [st2 EXCEPT !.execution_order = Append(@, target_id)]
             ELSE st2

\* execution_order after build_path(node_id) on the fresh closure state.
ExecutionOrder(ns, es, node_id) ==
    BuildPath(ns, es, node_id, [visited |-> {}, execution_order |-> <<>>]).execution_order

\* connected_nodes: every id an edge names as source or target.
ConnectedNodes(es) ==
    {es[i].source : i \in 1..Len(es)} \cup {es[i].target : i \in 1..Len(es)}

\* The errors and warnings of validate_pipeline.
ValidatePipelineReport(ns, es) ==
    LET orphaned == ns \ ConnectedNodes(es)
        errors ==
            (IF ns = {} THEN {"empty_pipeline"} ELSE {})
            \cup (IF ns # {} /\ ~\E n \in ns : NodeType(n) = "extractor"
                  THEN {"missing_extractor"} ELSE {})
            \cup (IF ns # {} /\ ~\E n \in ns : NodeType(n) = "loader"
                  THEN {"missing_loader"} ELSE {})
        warnings ==
            IF Cardinality(ns) > 1 /\ orphaned # {} THEN {"orphaned_nodes"} ELSE {}
    IN  [op |-> "validate_pipeline", valid |-> errors = {},
         errors |-> errors, warnings |-> warnings]

\* The errors of validate_config, which warns of nothing.
ValidateConfigReport(ns, es) ==
    LET errors ==
            (IF ns = {} THEN {"empty_pipeline"} ELSE {})
            \cup (IF ns # {} /\ ~\E n \in ns : NodeType(n) = "extractor"
                  THEN {"missing_extractor"} ELSE {})
            \cup (IF ns # {} /\ ~\E n \in ns : NodeType(n) = "loader"
                  THEN {"missing_loader"} ELSE {})
    IN  [op |-> "validate_config", valid |-> errors = {},
         errors |-> errors, warnings |-> {}]

InitGraph ==
    /\ executions = <<>>
    /\ dagRuns = <<>>
    /\ queue = {}
    /\ dispatching = {}
    /\ dagFiles = {}
    /\ now = 0
    /\ nodes \in SUBSET NodeIds
    /\ edges \in EdgeLists
    /\ result = [op |-> "none"]
    /\ schedules = <<>>
    /\ scans = <<>>
    /\ dispatched = <<>>

\* POST /pipelines/preview-node/{node_id}, up to the execution order: 400
\* "Could not build execution path to node" when the order is empty.
PreviewNodeOutput(node_id) ==
    /\ LET order == ExecutionOrder(nodes, edges, node_id) IN
        result' = [op |-> "preview_node_output", node_id |-> node_id,
                   outcome |-> IF order = <<>> THEN "http_400" ELSE "ok",
                   execution_order |-> order]
    /\ UNCHANGED <<nodes, edges, now>>
    /\ UNCHANGED <<execVars, schedVars>>

ValidatePipeline ==
    /\ result' = ValidatePipelineReport(nodes, edges)
    /\ UNCHANGED <<nodes, edges, now>>
    /\ UNCHANGED <<execVars, schedVars>>

ValidateConfig ==
    /\ result' = ValidateConfigReport(nodes, edges)
    /\ UNCHANGED <<nodes, edges, now>>
    /\ UNCHANGED <<execVars, schedVars>>

NextGraph ==
    \/ \E node_id \in NodeIds : PreviewNodeOutput(node_id)
    \/ ValidatePipeline
    \/ ValidateConfig

SpecGraph == InitGraph /\ [][NextGraph]_vars

(***************************************************************************)
(* Graph claims, checked under SpecGraph.                                  *)
(***************************************************************************)

\* The ids that reach id t along one or more edges of es.
RECURSIVE Ancestors(_, _, _)
Ancestors(es, frontier, seen) ==
    LET parents == {es[i].source : i \in {j \in 1..Len(es) : es[j].target \in frontier}}
        new == parents \ seen
    IN  IF new = {} THEN seen ELSE Ancestors(es, new, seen \cup new)

Reaches(es, s, t) == s \in Ancestors(es, {t}, {})

Cyclic(es) == \E n \in NodeIds : Reaches(es, n, n)

Planned == result.op = "preview_node_output"

Validated == result.op \in {"validate_pipeline", "validate_config"}

NoSelfEdges(es) == \A i \in 1..Len(es) : es[i].source # es[i].target

\* Every edge joins two nodes of the graph.
WellFormed(ns, es) == ConnectedNodes(es) \subseteq ns

\* C3: for a graph that contains a cycle (here: one through two or more
\* nodes, every edge joining two distinct nodes of the graph), planning fails
\* and returns no execution order, and validation does not report the graph
\* valid.
C3_CyclicGraphRejected ==
    (Cyclic(edges) /\ NoSelfEdges(edges) /\ WellFormed(nodes, edges)) =>
        /\ Planned => result.outcome # "ok" /\ result.execution_order = <<>>
        /\ Validated => ~result.valid

\* C4: for an acyclic graph and any target, the execution order holds each
\* node at most once, and every node of the graph from which a node of the
\* order is reachable along edges stands strictly before it in the order.
C4_OrderRespectsDependencies ==
    (Planned /\ ~Cyclic(edges)) =>
        LET order == result.execution_order IN
        /\ \A i, j \in 1..Len(order) : order[i] = order[j] => i = j
        /\ \A i \in 1..Len(order) : \A m \in nodes :
              Reaches(edges, m, order[i])
                  => \E j \in 1..(i - 1) : order[j] = m

\* C4 witness: an acyclic chain A -> B -> C planned for C, so that C has a
\* transitive dependency reached only through B.
C4_Witness ==
    /\ Planned
    /\ ~Cyclic(edges)
    /\ nodes = NodeIds
    /\ result.node_id = "C"
    /\ Reaches(edges, "A", "C")
    /\ ~\E i \in 1..Len(edges) : edges[i] = Edge("A", "C")
    /\ Len(result.execution_order) = 3

\* A loader that an extractor reaches along the edges, both nodes of the graph.
LoaderReachable(ns, es) ==
    \E x \in ns, l \in ns :
        /\ NodeType(x) = "extractor"
        /\ NodeType(l) = "loader"
        /\ Reaches(es, x, l)

HasType(ns, type) == \E n \in ns : NodeType(n) = type

\* C10: validation of a graph that has an extractor and a loader, but no
\* loader that an extractor reaches along the edges, reports missing_loader;
\* and validate_pipeline on a graph of several nodes reports an orphan
\* warning when some node is named by no edge.
C10_UnreachableLoaderReported ==
    (Validated /\ WellFormed(nodes, edges) /\ NoSelfEdges(edges)) =>
        /\ ( /\ HasType(nodes, "extractor")
              /\ HasType(nodes, "loader")
              /\ ~LoaderReachable(nodes, edges) )
              => "missing_loader" \in result.errors
        /\ ( /\ result.op = "validate_pipeline"
              /\ Cardinality(nodes) > 1
              /\ nodes \ ConnectedNodes(edges) # {} )
              => "orphaned_nodes" \in result.warnings

(***************************************************************************)
(* Schedules: frequency_to_cron, calculate_next_run, the schedule API and  *)
(* check_scheduled_pipelines.  Here the clock counts whole minutes from    *)
(* Monday 2024-01-01T00:00 UTC.  A cron expression is its five fields      *)
(* (minute, hour, day of month, month, day of week), each the list of its  *)
(* comma-separated items.                                                  *)
(***************************************************************************)
MinutesPerHour == 60

HoursPerDay == 24

MinutesPerDay == MinutesPerHour * HoursPerDay

DaysPerWeek == 7

\* How many days ahead the next occurrence of a cron is searched.
SearchDays == 32

\* str(n) and its inverse on the numbers a cron field can hold.
IsNumber(item) == \E n \in 0..59 : ToString(n) = item

ParseInt(item) == CHOOSE n \in 0..59 : ToString(n) = item

\* f"{value}" of a config value: None prints as "None".
Str(value) == IF value = None THEN "None" ELSE ToString(value[1])

\* day_map.get(d, "1")
DayMap(d) ==
    CASE d = "monday" -> "1"
      [] d = "tuesday" -> "2"
      [] d = "wednesday" -> "3"
      [] d = "thursday" -> "4"
      [] d = "friday" -> "5"
      [] d = "saturday" -> "6"
      [] d = "sunday" -> "0"
      [] OTHER -> "1"

\* config.get(key, default): a key stored with None yields None.
ConfigGet(config, key, default) ==
    IF key \in DOMAIN config THEN config[key] ELSE default

Cron(minute, hour, day_of_month, month, day_of_week) ==
    <<minute, hour, day_of_month, month, day_of_week>>

Star == <<"*">>

\* "0 0 * * *"
DefaultCron == Cron(<<"0">>, <<"0">>, Star, Star, Star)

\* frequency_to_cron with the minute and hour fields of a daily cron swapped.
FrequencyToCronSwapped(frequency, config) ==
    LET minute == Str(ConfigGet(config, "minute", Some(0)))
        hour == Str(ConfigGet(config, "hour", Some(0)))
        day_of_month == Str(ConfigGet(config, "day_of_month", Some(1)))
        days_of_week == ConfigGet(config, "days_of_week", Some(<<>>))
        days == IF days_of_week # None /\ days_of_week[1] # <<>>
                THEN [i \in 1..Len(days_of_week[1]) |-> DayMap(days_of_week[1][i])]
                ELSE <<"1">>
    IN  CASE frequency = "once" -> None
          [] frequency = "hourly" -> Cron(<<minute>>, Star, Star, Star, Star)
          [] frequency = "daily" -> Cron(<<hour>>, <<minute>>, Star, Star, Star)
          [] frequency = "weekly" -> Cron(<<minute>>, <<hour>>, Star, Star, days)
          [] frequency = "monthly" ->
                Cron(<<minute>>, <<hour>>, <<day_of_month>>, Star, Star)
          [] frequency = "custom" ->
                LET c == ConfigGet(config, "cron_expression", Some(DefaultCron))
                IN  IF c = None THEN None ELSE c[1]
          [] OTHER -> DefaultCron

FrequencyToCron(frequency, config) ==
    LET minute == Str(ConfigGet(config, "minute", Some(0)))
        hour == Str(ConfigGet(config, "hour", Some(0)))
        day_of_month == Str(ConfigGet(config, "day_of_month", Some(1)))
        days_of_week == ConfigGet(config, "days_of_week", Some(<<>>))
        days == IF days_of_week # None /\ days_of_week[1] # <<>>
                THEN [i \in 1..Len(days_of_week[1]) |-> DayMap(days_of_week[1][i])]
                ELSE <<"1">>
    IN  CASE frequency = "once" -> None
          [] frequency = "hourly" -> Cron(<<minute>>, Star, Star, Star, Star)
          [] frequency = "daily" -> Cron(<<minute>>, <<hour>>, Star, Star, Star)
          [] frequency = "weekly" -> Cron(<<minute>>, <<hour>>, Star, Star, days)
          [] frequency = "monthly" ->
                Cron(<<minute>>, <<hour>>, <<day_of_month>>, Star, Star)
          [] frequency = "custom" ->
                LET c == ConfigGet(config, "cron_expression", Some(DefaultCron))
                IN  IF c = None THEN None ELSE c[1]
          [] OTHER -> DefaultCron

\* The values a cron field stands for, within lo..hi.
FieldValues(field, lo, hi) ==
    IF field = Star THEN lo..hi
    ELSE {ParseInt(field[i]) : i \in 1..Len(field)}

FieldValid(field, lo, hi) ==
    \/ field = Star
    \/ /\ Len(field) > 0
       /\ \A i \in 1..Len(field) :
             IsNumber(field[i]) /\ ParseInt(field[i]) \in lo..hi

\* What croniter accepts: five fields, each a star or numbers in range (the
\* month field is a star in every expression the model builds).
CronValid(cron) ==
    /\ Len(cron) = 5
    /\ FieldValid(cron[1], 0, 59)
    /\ FieldValid(cron[2], 0, 23)
    /\ FieldValid(cron[3], 1, 31)
    /\ cron[4] = Star
    /\ FieldValid(cron[5], 0, 7)

\* Day 0 is Monday 2024-01-01; cron counts Sunday as 0 (and as 7).
DayOfWeek(day) == (day + 1) % DaysPerWeek

\* January has 31 days, February 2024 has 29.
DayOfMonth(day) ==
    IF day < 31 THEN day + 1 ELSE IF day < 60 THEN day - 30 ELSE day - 59

Minimum(S) == CHOOSE x \in S : \A y \in S : x <= y

\* A day matches when its day of month and day of week match; when both
\* fields are restricted, either match is enough.
DayMatches(cron, day) ==
    LET dom == DayOfMonth(day) \in FieldValues(cron[3], 1, 31)
        dow == \/ DayOfWeek(day) \in FieldValues(cron[5], 0, 7)
               \/ DayOfWeek(day) = 0 /\ 7 \in FieldValues(cron[5], 0, 7)
    IN  IF cron[3] # Star /\ cron[5] # Star THEN dom \/ dow ELSE dom /\ dow

\* croniter(cron, t).get_next(): the first occurrence strictly after t.
CronNext(cron, t) ==
    LET inDay == {h * MinutesPerHour + m :
                    h \in FieldValues(cron[2], 0, 23),
                    m \in FieldValues(cron[1], 0, 59)}
        today == t \div MinutesPerDay
        laterToday == {x \in inDay : x > t % MinutesPerDay}
        nextDay == Minimum({d \in (today + 1)..(today + SearchDays) :
                                DayMatches(cron, d)})
    IN  IF DayMatches(cron, today) /\ laterToday # {}
        THEN today * MinutesPerDay + Minimum(laterToday)
        ELSE nextDay * MinutesPerDay + Minimum(inDay)

\* next_run.isoformat() of the naive datetime croniter returns, and
\* datetime.fromisoformat of such a string.
FromIso(s) == s[2]

\* calculate_next_run(cron_expression, timezone): None without a cron and
\* when croniter raises; the timezone is not used.
CalculateNextRun(cron_expression, timezone, utcnow) ==
    IF cron_expression = None THEN None
    ELSE IF ~CronValid(cron_expression) THEN None
    ELSE IsoNaive(CronNext(cron_expression, utcnow))

\* A user's cron, every quarter past the hour, and text that is no cron.
UserCron == Cron(<<"15">>, Star, Star, Star, Star)

MalformedCron == <<<<"not">>, <<"a">>, <<"cron">>>>

\* A date string datetime.fromisoformat rejects.
NotADate == <<"invalid", 0>>

\* Whether datetime.fromisoformat accepts the string.
Parsable(s) == s[1] \in {"naive", "aware"}

(***************************************************************************)
(* Schedule rows and the requests of the schedule API.                     *)
(***************************************************************************)
MaxSched == 1
MaxDispatch == 2
MaxDays == 4

SchedIds == 1..MaxSched

\* The Celery workers that can run check_scheduled_pipelines side by side.
ScanWorkers == {"w1", "w2"}

ScheduleStatuses == {"active", "paused", "expired"}

ConfigKeys == {"minute", "hour", "days_of_week", "day_of_month", "cron_expression"}

\* ScheduleConfigSchema.model_dump(): every key, None where the request set none.
ModelDump(config) ==
    [k \in ConfigKeys |-> IF k \in DOMAIN config THEN config[k] ELSE None]

\* weekly on Wednesday at 02:00
WeeklyConfig ==
    [minute |-> Some(0), hour |-> Some(2), days_of_week |-> Some(<<"wednesday">>)]

\* Wednesday 00:00, an end date that falls before the first weekly occurrence.
EndDate == IsoNaive(2 * MinutesPerDay)

\* The bodies of POST /schedules the model submits.
CreateRequests ==
    {[frequency |-> "weekly", config |-> WeeklyConfig, end_date |-> d] :
        d \in {None, EndDate}}
    \cup {[frequency |-> "once", config |-> <<>>, end_date |-> None]}

\* The bodies of PUT /schedules/{id} the model submits, as
\* model_dump(exclude_unset=True) leaves them.
UpdateRequests ==
    {[frequency |-> f] : f \in {"once", "weekly"}}
    \cup {[status |-> st] : st \in ScheduleStatuses}
    \cup {[config |-> WeeklyConfig]}

Existing == DOMAIN schedules

DispatchJob(s, due, by) == [schedule |-> s, due |-> due, by |-> by]

InitSched ==
    /\ executions = <<>>
    /\ dagRuns = <<>>
    /\ queue = {}
    /\ dispatching = {}
    /\ dagFiles = {}
    /\ now = 0
    /\ nodes = {}
    /\ edges = <<>>
    /\ result = [op |-> "none"]
    /\ schedules = <<>>
    /\ scans = <<>>
    /\ dispatched = <<>>

\* The row create_schedule stores for a request received at utcnow.
NewSchedule(req, utcnow) ==
    LET config_dict == ModelDump(req.config)
        cron_expression == FrequencyToCron(req.frequency, config_dict)
    IN  [frequency |-> req.frequency,
         cron_expression |-> cron_expression,
         status |-> "active",
         config |-> config_dict,
         start_date |-> IF "start_date" \in DOMAIN req THEN req.start_date ELSE None,
         end_date |-> req.end_date,
         next_run_at |-> CalculateNextRun(cron_expression, "UTC", utcnow),
         last_run_at |-> None,
         total_runs |-> 0]

\* POST /schedules
CreateSchedule(req) ==
    /\ Cardinality(Existing) < MaxSched
    /\ schedules' = Extend(schedules, Cardinality(Existing) + 1, NewSchedule(req, now))
    /\ UNCHANGED <<scans, dispatched, now>>
    /\ UNCHANGED <<execVars, graphVars>>

\* The row after the setattr loop of update_schedule.
SetAttrs(row, update_data) ==
    [f \in DOMAIN row |-> IF f \in DOMAIN update_data THEN update_data[f] ELSE row[f]]

\* PUT /schedules/{id}: the cron expression and next_run_at are recomputed
\* only when the body carries a non-empty config.
UpdateSchedule(s, update_data) ==
    /\ s \in Existing
    /\ LET row == schedules[s]
           recomputed ==
               IF "config" \in DOMAIN update_data /\ DOMAIN update_data.config # {}
               THEN LET frequency == IF "frequency" \in DOMAIN update_data
                                     THEN update_data.frequency ELSE row.frequency
                        cron == FrequencyToCron(frequency, update_data.config)
                    IN  [row EXCEPT !.cron_expression = cron,
                                    !.next_run_at = CalculateNextRun(cron, "UTC", now)]
               ELSE row
       IN  schedules' = [schedules EXCEPT ![s] = SetAttrs(recomputed, update_data)]
    /\ UNCHANGED <<scans, dispatched, now>>
    /\ UNCHANGED <<execVars, graphVars>>

\* PATCH /schedules/{id}/status: the status of the body is stored as it is.
ToggleScheduleStatus(s, status) ==
    /\ s \in Existing
    /\ LET row == [schedules[s] EXCEPT !.status = status] IN
        schedules' = [schedules EXCEPT ![s] =
            IF status = "active" /\ row.cron_expression # None
            THEN [row EXCEPT !.next_run_at =
                      CalculateNextRun(row.cron_expression, "UTC", now)]
            ELSE row]
    /\ UNCHANGED <<scans, dispatched, now>>
    /\ UNCHANGED <<execVars, graphVars>>

\* POST /schedules/{id}/trigger: submits the run, counts it, and recomputes
\* next_run_at when the row has a cron expression.
TriggerSchedule(s) ==
    /\ s \in Existing
    /\ Len(dispatched) < MaxDispatch
    /\ LET row == schedules[s] IN
        /\ dispatched' = Append(dispatched, DispatchJob(s, None, "trigger"))
        /\ schedules' = [schedules EXCEPT
                ![s].total_runs = row.total_runs + 1,
                ![s].last_run_at = IsoNaive(now),
                ![s].next_run_at =
                    IF row.cron_expression # None
                    THEN CalculateNextRun(row.cron_expression, "UTC", now)
                    ELSE row.next_run_at]
    /\ UNCHANGED <<scans, now>>
    /\ UNCHANGED <<execVars, graphVars>>

(***************************************************************************)
(* check_scheduled_pipelines.  The task reads the clock once, loads the    *)
(* active rows that have a next_run_at, and walks the list; the session    *)
(* keeps each row as loaded until a commit of the task expires its rows,   *)
(* after which a row is read again on first use.  A task that finds no     *)
(* row returns at once; the second worker stands for a delivery that       *)
(* starts while another one is still running.                              *)
(***************************************************************************)
\* The query of the task without its next_run_at condition.
ScheduleFilterActiveOnly(row) == row.status = "active"

\* The filter of the task's query.
ScheduleFilter(row) ==
    /\ row.status = "active"
    /\ row.next_run_at # None

CheckScheduledPipelinesStart(w) ==
    /\ w \notin DOMAIN scans
    /\ w = "w1" \/ "w1" \in DOMAIN scans
    /\ LET listed == {s \in Existing : ScheduleFilter(schedules[s])}
       IN  scans' = IF listed = {}
                    THEN scans
                    ELSE Extend(scans, w,
                            [now |-> now, todo |-> listed,
                             loaded |-> [s \in listed |-> schedules[s]],
                             expired |-> FALSE])
    /\ UNCHANGED <<schedules, dispatched, now>>
    /\ UNCHANGED <<execVars, graphVars>>

\* The scans after worker w has gone through one more schedule of its list:
\* the task returns, and its session closes, after the last one.
Continue(w, scan) ==
    IF scan.todo = {}
    THEN [v \in DOMAIN scans \ {w} |-> scans[v]]
    ELSE [scans EXCEPT ![w] = scan]

\* The next_run_at the loop body computes after a dispatch.
NextRunAfterDispatch(row, scan_now) ==
    IF row.cron_expression # None /\ row.frequency # "once"
    THEN IF CronValid(row.cron_expression)
         THEN IsoNaive(CronNext(row.cron_expression, scan_now))
         ELSE None
    ELSE None

\* What can go wrong in one pass of the loop body: execute_pipeline.delay
\* raises, or db.commit() raises and leaves the session unusable.
StepOutcomes == {"ok", "delay_raises", "commit_raises"}

\* The scans after the pass of worker w raised inside db.commit(): the except
\* clause of the loop formats schedule.id, which needs the session again; that
\* raises out of the loop and the task ends with the rest of its list undone.
Aborted(w) == [v \in DOMAIN scans \ {w} |-> scans[v]]

\* The start_date test with the comparison turned around.
StartNotReachedFlipped(row, scan_now) ==
    row.start_date # None /\ scan_now > FromIso(row.start_date)

\* if schedule.start_date: ... if now < start
StartNotReached(row, scan_now) ==
    row.start_date # None /\ scan_now < FromIso(row.start_date)

\* if schedule.end_date: ... if now > end
PastEndDate(row, scan_now) ==
    row.end_date # None /\ scan_now > FromIso(row.end_date)

\* One pass of the loop body, for schedule s of the list of worker w.
CheckScheduledPipelinesStep(w, s, outcome) ==
    /\ w \in DOMAIN scans
    /\ s \in scans[w].todo
    /\ LET scan == scans[w]
           row == IF scan.expired THEN schedules[s] ELSE scan.loaded[s]
           rest == [scan EXCEPT !.todo = @ \ {s}]
           committed == [rest EXCEPT !.expired = TRUE]
       IN
       IF row.next_run_at = None
       THEN \* fromisoformat(None) raises: logged, next schedule
            /\ scans' = Continue(w, rest)
            /\ UNCHANGED <<schedules, dispatched>>
       ELSE IF FromIso(row.next_run_at) > scan.now
       THEN \* not due
            /\ scans' = Continue(w, rest)
            /\ UNCHANGED <<schedules, dispatched>>
       ELSE IF row.start_date # None /\ ~Parsable(row.start_date)
       THEN \* fromisoformat(start_date) raises: logged, next schedule
            /\ scans' = Continue(w, rest)
            /\ UNCHANGED <<schedules, dispatched>>
       ELSE IF StartNotReached(row, scan.now)
       THEN \* start_date not reached yet
            /\ scans' = Continue(w, rest)
            /\ UNCHANGED <<schedules, dispatched>>
       ELSE IF row.end_date # None /\ ~Parsable(row.end_date)
       THEN \* fromisoformat(end_date) raises: logged, next schedule
            /\ scans' = Continue(w, rest)
            /\ UNCHANGED <<schedules, dispatched>>
       ELSE IF PastEndDate(row, scan.now)
       THEN \* past the end date: expired, committed, not dispatched
            IF outcome = "commit_raises"
            THEN /\ scans' = Aborted(w)
                 /\ UNCHANGED <<schedules, dispatched>>
            ELSE /\ schedules' = [schedules EXCEPT ![s].status = "expired"]
                 /\ scans' = Continue(w, committed)
                 /\ UNCHANGED dispatched
       ELSE IF outcome = "delay_raises"
       THEN \* execute_pipeline.delay raises: logged, next schedule
            /\ scans' = Continue(w, rest)
            /\ UNCHANGED <<schedules, dispatched>>
       ELSE \* execute_pipeline.delay, statistics, next run, commit
            /\ Len(dispatched) < MaxDispatch
            /\ dispatched' = Append(dispatched, DispatchJob(s, row.next_run_at, "scan"))
            /\ IF outcome = "commit_raises"
               THEN /\ scans' = Aborted(w)
                    /\ UNCHANGED schedules
               ELSE /\ schedules' = [schedules EXCEPT
                            ![s].total_runs = row.total_runs + 1,
                            ![s].last_run_at = IsoNaive(scan.now),
                            ![s].next_run_at = NextRunAfterDispatch(row, scan.now),
                            ![s].status = IF row.frequency = "once"
                                          THEN "expired" ELSE schedules[s].status]
                    /\ scans' = Continue(w, committed)
    /\ UNCHANGED now
    /\ UNCHANGED <<execVars, graphVars>>

\* Time passes until some schedule is one minute past due.
ClockPassesDue(s) ==
    /\ s \in Existing
    /\ schedules[s].next_run_at # None
    /\ FromIso(schedules[s].next_run_at) + 1 > now
    /\ FromIso(schedules[s].next_run_at) + 1 <= MaxDays * MinutesPerDay
    /\ now' = FromIso(schedules[s].next_run_at) + 1
    /\ UNCHANGED schedVars
    /\ UNCHANGED <<execVars, graphVars>>

NextSched ==
    \/ \E req \in CreateRequests : CreateSchedule(req)
    \/ \E s \in SchedIds, update_data \in UpdateRequests : UpdateSchedule(s, update_data)
    \/ \E s \in SchedIds, status \in ScheduleStatuses : ToggleScheduleStatus(s, status)
    \/ \E s \in SchedIds : TriggerSchedule(s)
    \/ \E w \in ScanWorkers : CheckScheduledPipelinesStart(w)
    \/ \E w \in ScanWorkers, s \in SchedIds, outcome \in StepOutcomes :
          CheckScheduledPipelinesStep(w, s, outcome)
    \/ \E s \in SchedIds : ClockPassesDue(s)

SpecSched == InitSched /\ [][NextSched]_vars

(***************************************************************************)
(* Claims about schedules.                                                 *)
(***************************************************************************)

\* C5: the due-schedule scan dispatches a due occurrence of a schedule once,
\* also when the scan is delivered twice or two scans overlap: no two scan
\* dispatches carry the same schedule and the same due next_run_at.
C5_DueOccurrenceDispatchedOnce ==
    \A i, j \in DOMAIN dispatched :
        /\ dispatched[i].by = "scan"
        /\ dispatched[j].by = "scan"
        /\ dispatched[i].schedule = dispatched[j].schedule
        /\ dispatched[i].due = dispatched[j].due
        => i = j

\* A step that submits a run of schedule s.
Fires(s) ==
    /\ Len(dispatched') = Len(dispatched) + 1
    /\ dispatched'[Len(dispatched')].schedule = s

\* C8: a once schedule that fires, through the scan or through a trigger of
\* the schedule, is expired and has no next_run_at after the step that
\* submits its run.
C8_FiredOnceScheduleExpires ==
    [][\A s \in Existing :
          Fires(s) /\ schedules[s].frequency = "once"
          => /\ schedules'[s].status = "expired"
             /\ schedules'[s].next_run_at = None]_vars

\* A status change made by the API (toggle or update) rather than by a run.
ByRequest(s) ==
    \/ \E status \in ScheduleStatuses : ToggleScheduleStatus(s, status)
    \/ \E update_data \in UpdateRequests : UpdateSchedule(s, update_data)

\* C9: the status of a schedule changes only active -> paused and
\* paused -> active, and active -> expired when a one-shot fires or the end
\* date closes it; the status of an expired schedule never changes.
C9_ScheduleStatusTransitions ==
    [][\A s \in Existing :
          LET old == schedules[s].status
              new == schedules'[s].status
          IN  old # new =>
                \/ old = "active" /\ new = "paused"
                \/ old = "paused" /\ new = "active"
                \/ old = "active" /\ new = "expired" /\ ~ByRequest(s)]_vars

(***************************************************************************)
(* Claims about dispatch, checked under Spec.                              *)
(***************************************************************************)

\* C11: for a pipeline whose graph fails validation (here already the
\* validation of validate_pipeline: empty graph, no extractor, no loader) no
\* DAG file is generated, no DAG run is triggered and no Execution is
\* running.
C11_InvalidGraphNeverDispatched ==
    ~ValidatePipelineReport(nodes, edges).valid =>
        /\ dagFiles = {}
        /\ DOMAIN dagRuns = {}
        /\ \A e \in Created : executions[e].status # "running"

\* C12: an Execution whose dispatch failed (the except branch of
\* execute_pipeline recorded the captured error on it) is in status failed:
\* it is not pending, running or anything else, then or later.
C12_FailedDispatchEndsFailed ==
    \A e \in Created :
        executions[e].error_message # None => executions[e].status = "failed"

(***************************************************************************)
(* Claims about schedule compilation and the scan, checked under           *)
(* SpecSched.                                                              *)
(***************************************************************************)

\* C13: in every reachable state the cron expression stored on a schedule
\* is the one frequency_to_cron gives for the stored frequency and config.
C13_CronIsCompiledFromFrequencyAndConfig ==
    \A s \in Existing :
        schedules[s].cron_expression =
            FrequencyToCron(schedules[s].frequency, schedules[s].config)

(***************************************************************************)
(* frequency_to_cron and calculate_next_run on their own: the functions    *)
(* applied to the configs the schema admits, at several reference times.   *)
(***************************************************************************)
Frequencies == {"once", "hourly", "daily", "weekly", "monthly", "custom"}

\* ScheduleConfigSchema.model_dump() of the bodies the model submits.
Configs ==
    [minute : {None, Some(0), Some(30)},
     hour : {None, Some(2), Some(9)},
     days_of_week : {None, Some(<<>>), Some(<<"wednesday">>),
                     Some(<<"monday", "friday">>)},
     day_of_month : {None, Some(15)},
     cron_expression : {None, Some(UserCron), Some(MalformedCron)}]

Timezones == {"UTC", "Europe/Paris", "America/New_York"}

\* Reference times: Monday 00:00, 09:29, 09:30 (an occurrence of the daily
\* cron), and Wednesday 02:01.
RefTimes == {0, 9 * MinutesPerHour + 29, 9 * MinutesPerHour + 30,
             2 * MinutesPerDay + 2 * MinutesPerHour + 1}

InitCron ==
    /\ executions = <<>>
    /\ dagRuns = <<>>
    /\ queue = {}
    /\ dispatching = {}
    /\ dagFiles = {}
    /\ now \in RefTimes
    /\ nodes = {}
    /\ edges = <<>>
    /\ \E frequency \in Frequencies, config \in Configs, timezone \in Timezones :
          result = [op |-> "request", frequency |-> frequency,
                    config |-> config, timezone |-> timezone]
    /\ schedules = <<>>
    /\ scans = <<>>
    /\ dispatched = <<>>

FrequencyToCronCall ==
    /\ result.op = "request"
    /\ result' = [op |-> "frequency_to_cron", frequency |-> result.frequency,
                  config |-> result.config,
                  cron_expression |->
                      FrequencyToCron(result.frequency, result.config)]
    /\ UNCHANGED <<nodes, edges, now>>
    /\ UNCHANGED <<execVars, schedVars>>

\* calculate_next_run on the cron of a schedule stored with the request's
\* frequency and config.
CalculateNextRunCall ==
    /\ result.op = "request"
    /\ LET cron_expression == FrequencyToCron(result.frequency, result.config) IN
        result' = [op |-> "calculate_next_run",
                   cron_expression |-> cron_expression,
                   timezone |-> result.timezone, utcnow |-> now,
                   next_run_at |->
                       CalculateNextRun(cron_expression, result.timezone, now)]
    /\ UNCHANGED <<nodes, edges, now>>
    /\ UNCHANGED <<execVars, schedVars>>

\* POST /schedules with the request's frequency and config.
CreateScheduleCall ==
    /\ result.op = "request"
    /\ schedules = <<>>
    /\ schedules' = <<NewSchedule([frequency |-> result.frequency,
                                   config |-> result.config,
                                   end_date |-> None], now)>>
    /\ UNCHANGED <<scans, dispatched>>
    /\ UNCHANGED <<nodes, edges, result, now>>
    /\ UNCHANGED execVars

NextCron ==
    \/ FrequencyToCronCall
    \/ CalculateNextRunCall
    \/ CreateScheduleCall

SpecCron == InitCron /\ [][NextCron]_vars

(***************************************************************************)
(* Claims about frequency_to_cron and calculate_next_run, checked under    *)
(* SpecCron.                                                               *)
(***************************************************************************)
Compiled == result.op = "frequency_to_cron"

\* The cron number of a day of the week, as text.
CronDay(d) ==
    CASE d = "sunday" -> "0" [] d = "monday" -> "1" [] d = "tuesday" -> "2"
      [] d = "wednesday" -> "3" [] d = "thursday" -> "4"
      [] d = "friday" -> "5" [] d = "saturday" -> "6"

Items(field) == {field[i] : i \in 1..Len(field)}

\* The days of the week a config lists.
ListedDays(config) ==
    IF config.days_of_week = None THEN {}
    ELSE Items(config.days_of_week[1])

\* C14: for a config that sets the fields its frequency uses, the compiled
\* cron is "minute * * * *" for hourly, "minute hour * * *" for daily,
\* "minute hour * * D" for weekly with D the listed days (Monday when none
\* is listed), "minute hour day-of-month * *" for monthly, the user's cron
\* for custom, and no cron for once.
C14_CompileMapping ==
    Compiled =>
        LET f == result.frequency
            c == result.config
            cron == result.cron_expression
            m == <<ToString(c.minute[1])>>
            h == <<ToString(c.hour[1])>>
            dom == <<ToString(c.day_of_month[1])>>
        IN  /\ f = "once" => cron = None
            /\ (f = "hourly" /\ c.minute # None) =>
                    cron = <<m, Star, Star, Star, Star>>
            /\ (f = "daily" /\ c.minute # None /\ c.hour # None) =>
                    cron = <<m, h, Star, Star, Star>>
            /\ (f = "weekly" /\ c.minute # None /\ c.hour # None) =>
                    /\ Len(cron) = 5
                    /\ <<cron[1], cron[2], cron[3], cron[4]>> = <<m, h, Star, Star>>
                    /\ Items(cron[5]) =
                          IF ListedDays(c) = {} THEN {"1"}
                          ELSE {CronDay(d) : d \in ListedDays(c)}
            /\ (f = "monthly" /\ c.minute # None /\ c.hour # None
                    /\ c.day_of_month # None) =>
                    cron = <<m, h, dom, Star, Star>>
            /\ (f = "custom" /\ c.cron_expression # None) =>
                    cron = c.cron_expression[1]

\* daily at 09:30 compiles to "30 9 * * *" and weekly on Wednesday at 02:00
\* to "0 2 * * 3".
C14_Witness ==
    /\ Compiled
    /\ \/ /\ result.frequency = "daily"
          /\ result.config.minute = Some(30) /\ result.config.hour = Some(9)
          /\ result.cron_expression = <<<<"30">>, <<"9">>, Star, Star, Star>>
       \/ /\ result.frequency = "weekly"
          /\ result.config.minute = Some(0) /\ result.config.hour = Some(2)
          /\ result.config.days_of_week = Some(<<"wednesday">>)
          /\ result.cron_expression = <<<<"0">>, <<"2">>, Star, Star, <<"3">>>>

NextRunComputed ==
    result.op = "calculate_next_run" /\ result.next_run_at # None

\* Minutes a timezone's local time is ahead of UTC in January.
UtcOffset(timezone) ==
    CASE timezone = "UTC" -> 0
      [] timezone = "Europe/Paris" -> 60
      [] timezone = "America/New_York" -> 0 - 300

\* The local time of day, in minutes, of a UTC instant.
LocalTimeOfDay(t, timezone) == (t + UtcOffset(timezone)) % MinutesPerDay

\* C15: the next run is strictly later than the reference time, and for
\* the daily cron "30 9 * * *" it falls at 09:30 local time of the
\* schedule's timezone (the stored value is compared with utcnow by the
\* scan, so it denotes a UTC instant).
C15_NextRunInDeclaredTimezone ==
    NextRunComputed =>
        /\ FromIso(result.next_run_at) > result.utcnow
        /\ result.cron_expression = <<<<"30">>, <<"9">>, Star, Star, Star>> =>
              LocalTimeOfDay(FromIso(result.next_run_at), result.timezone)
                  = 9 * MinutesPerHour + 30

(***************************************************************************)
(* The scan over several schedules: check_scheduled_pipelines on a table   *)
(* of ScanRows schedules created at time 0, with overlapping tasks, failing *)
(* dispatches and commits, and a frequency-only update in between.         *)
(***************************************************************************)
ScanRows == 2

\* Thursday 00:00, a start date after the first weekly occurrence.
StartDate == IsoNaive(3 * MinutesPerDay)

\* The bodies of POST /schedules that created the rows of the table.
ScanRequests ==
    {[frequency |-> "weekly", config |-> WeeklyConfig,
      start_date |-> sd, end_date |-> None] : sd \in {None, StartDate, NotADate}}
    \cup {[frequency |-> "weekly", config |-> WeeklyConfig,
           start_date |-> None, end_date |-> EndDate]}
    \cup {[frequency |-> "custom",
           config |-> [cron_expression |-> Some(MalformedCron)],
           start_date |-> None, end_date |-> None]}

InitScan ==
    /\ executions = <<>>
    /\ dagRuns = <<>>
    /\ queue = {}
    /\ dispatching = {}
    /\ dagFiles = {}
    /\ now = 0
    /\ nodes = {}
    /\ edges = <<>>
    /\ result = [op |-> "none"]
    /\ schedules \in [1..ScanRows -> {NewSchedule(req, 0) : req \in ScanRequests}]
    /\ scans = <<>>
    /\ dispatched = <<>>

\* One scan at a time here; overlapping scans are the subject of SpecSched.
NextScan ==
    \/ CheckScheduledPipelinesStart("w1")
    \/ \E s \in 1..ScanRows, outcome \in StepOutcomes :
          CheckScheduledPipelinesStep("w1", s, outcome)
    \/ \E s \in 1..ScanRows : ClockPassesDue(s)
    \/ \E s \in 1..ScanRows : UpdateSchedule(s, [frequency |-> "once"])

SpecScan == InitScan /\ [][NextScan]_vars

(***************************************************************************)
(* Claims about the scan, checked under SpecScan.                          *)
(***************************************************************************)

\* The row a task sees when it comes to schedule s of its list.
RowSeen(w, s) == IF scans[w].expired THEN schedules[s] ELSE scans[w].loaded[s]

\* Worker w goes through schedule s of its list in this step.
Processes(w, s) == \E outcome \in StepOutcomes : CheckScheduledPipelinesStep(w, s, outcome)

MalformedRow(s) ==
    /\ schedules[s].cron_expression # None
    /\ ~CronValid(schedules[s].cron_expression)

DispatchedByScan(s) ==
    \E i \in DOMAIN dispatched :
        dispatched[i].schedule = s /\ dispatched[i].by = "scan"

\* A schedule with a malformed cron has no next_run_at, a task lists no
\* schedule that has no next_run_at, and no scan dispatch is for a missing
\* next_run_at.
DormantNotScanned ==
    /\ \A s \in Existing : MalformedRow(s) => schedules[s].next_run_at = None
    /\ \A w \in DOMAIN scans : \A s \in scans[w].todo :
          scans[w].loaded[s].next_run_at # None
    /\ \A i \in DOMAIN dispatched :
          dispatched[i].by = "scan" => dispatched[i].due # None

\* C16: for a malformed cron the next run is none, not an exception; a
\* schedule without next_run_at is dormant: no scan that starts afterwards
\* lists or dispatches it, and a task that meets it (read again after a
\* commit) changes nothing and goes on with the rest of its list.
C16_MalformedCronGoesDormant ==
    /\ []DormantNotScanned
    /\ [][\A w \in DOMAIN scans : \A s \in scans[w].todo :
            (Processes(w, s) /\ RowSeen(w, s).next_run_at = None) =>
                /\ UNCHANGED <<schedules, dispatched>>
                /\ scans[w].todo # {s} => w \in DOMAIN scans']_vars

\* A table with a malformed-cron schedule and a weekly one, after a scan
\* that dispatched the weekly one only.
C16_Witness ==
    /\ scans = <<>>
    /\ \E s \in Existing, other \in Existing :
          /\ MalformedRow(s)
          /\ schedules[s].next_run_at = None
          /\ ~DispatchedByScan(s)
          /\ DispatchedByScan(other)

\* Schedule s is active and due at time t inside its date window.
DueInWindow(s, t) ==
    LET row == schedules[s] IN
    /\ row.status = "active"
    /\ row.next_run_at # None
    /\ FromIso(row.next_run_at) <= t
    /\ row.start_date # None => Parsable(row.start_date) /\ FromIso(row.start_date) <= t
    /\ row.end_date # None => Parsable(row.end_date) /\ t <= FromIso(row.end_date)

\* C17: a task ends only when every schedule of its list has had its pass:
\* whatever fails in the pass of one schedule, no other due active schedule
\* of the list is left without its dispatch.
C17_ScanItemsIndependent ==
    [][\A w \in DOMAIN scans :
          w \notin DOMAIN scans' =>
              \A s \in scans[w].todo :
                  Processes(w, s) \/ ~DueInWindow(s, scans[w].now)]_vars

Polled(e) ==
    /\ e \in Created
    /\ executions[e].airflow_dag_run_id # None
    /\ \E redeliver \in BOOLEAN : MonitorExecution(e, redeliver, TRUE)

PolledRun(e) == dagRuns[executions[e].airflow_dag_run_id[1]]

C19_PollMapsStatusAndDuration ==
    [][\A e \in ExecIds :
        Polled(e) =>
            /\ executions'[e].status = StateMapping(PolledRun(e).state)
            /\ (PolledRun(e).end_date # None /\ PolledRun(e).start_date # None) =>
                  executions'[e].duration_seconds =
                      Some(PolledRun(e).end_date[2] - PolledRun(e).start_date[2])]_vars


(***************************************************************************)
(* preview_node_output past the execution order: the loop that looks each  *)
(* node's module up and runs the node.  Every request of this part names   *)
(* a url for its REST extractor and code for its Python transformer.       *)
(***************************************************************************)
MaxPreviewEdges == 2

PreviewEdgeLists == UNION {[1..n -> AllEdges] : n \in 0..MaxPreviewEdges}

\* The "name" of every entry of MODULES_DATA.
ModulesData ==
    {"postgres-extractor", "csv-extractor", "excel-extractor", "json-extractor",
     "parquet-extractor", "rest-api-extractor", "python-transformer",
     "sql-transformer"}

GetModuleDefinition(module_name) ==
    IF module_name \in ModulesData THEN Some(module_name) ELSE None

\* data.moduleId of the nodes of the requests: each node carries a module
\* of its own type, from the catalog or not.
ModuleAssignments ==
    {m \in [NodeIds -> {"rest-api-extractor", "csv-extractor", "python-transformer",
                        "sql-transformer", "clean-transformer", "postgres-loader"}] :
        /\ m["A"] \in {"rest-api-extractor", "csv-extractor"}
        /\ m["B"] \in {"python-transformer", "sql-transformer", "clean-transformer"}
        /\ m["C"] = "postgres-loader"}

IoEvent(id, kind) == [node |-> id, kind |-> kind]

\* One iteration of "for exec_node in execution_order" on the loop state
\* st = (data, io, outcome); io lists the requests sent and the transforms
\* run so far, and an outcome other than "running" is the exception that
\* left the loop.
ExecuteNode(st, id, module_id, responds) ==
    IF st.outcome # "running" THEN st
    ELSE IF GetModuleDefinition(module_id[id]) = None
    THEN [st EXCEPT !.outcome = "module_not_found"]
    ELSE CASE NodeType(id) = "extractor" ->
                IF module_id[id] = "rest-api-extractor"
                THEN IF responds
                     THEN [st EXCEPT !.io = Append(@, IoEvent(id, "request")),
                                     !.data = TRUE]
                     ELSE [st EXCEPT !.io = Append(@, IoEvent(id, "request")),
                                     !.outcome = "api_request_failed"]
                ELSE [st EXCEPT !.data = TRUE]
           [] NodeType(id) = "transformer" ->
                IF ~st.data
                THEN [st EXCEPT !.outcome = "transformer_requires_input"]
                ELSE IF module_id[id] = "python-transformer"
                     THEN \* CodeExecutor has no method "execute": the
                          \* AttributeError ends the preview with a 500
                          [st EXCEPT !.outcome = "preview_failed"]
                     ELSE IF module_id[id] \in {"sql-transformer", "clean-transformer"}
                     THEN [st EXCEPT !.io = Append(@, IoEvent(id, "transform"))]
                     ELSE st
           [] NodeType(id) = "loader" -> st

\* The loop over the execution order, from data = None.
ExecuteNodes(order, module_id, responds) ==
    LET loop[i \in 0..Len(order)] ==
            IF i = 0 THEN [data |-> FALSE, io |-> <<>>, outcome |-> "running"]
            ELSE ExecuteNode(loop[i - 1], order[i], module_id, responds)
    IN  loop[Len(order)]

InitPreview ==
    /\ executions = <<>>
    /\ dagRuns = <<>>
    /\ queue = {}
    /\ dispatching = {}
    /\ dagFiles = {}
    /\ now = 0
    /\ nodes \in SUBSET NodeIds
    /\ edges \in PreviewEdgeLists
    /\ result \in {[op |-> "request", module_id |-> m] : m \in ModuleAssignments}
    /\ schedules = <<>>
    /\ scans = <<>>
    /\ dispatched = <<>>

\* POST /pipelines/preview-node/{node_id} to its response: 400 on an empty
\* order, the exception that left the loop, "No data available" when the
\* loop ends without data, the preview otherwise.
PreviewNodeOutputRun(node_id, responds) ==
    /\ LET order == ExecutionOrder(nodes, edges, node_id)
           st == ExecuteNodes(order, result.module_id, responds)
       IN  result' = [op |-> "preview_node_output", module_id |-> result.module_id,
                      node_id |-> node_id, execution_order |-> order,
                      io |-> IF order = <<>> THEN <<>> ELSE st.io,
                      outcome |->
                          IF order = <<>> THEN "no_execution_path"
                          ELSE IF st.outcome # "running" THEN st.outcome
                          ELSE IF st.data THEN "ok" ELSE "no_data"]
    /\ UNCHANGED <<nodes, edges, now>>
    /\ UNCHANGED <<execVars, schedVars>>

NextPreview ==
    \E node_id \in NodeIds, responds \in BOOLEAN : PreviewNodeOutputRun(node_id, responds)

SpecPreview == InitPreview /\ [][NextPreview]_vars

\* A preview has run over an order holding a node whose module id the
\* catalog does not list.
UnknownModuleInOrder ==
    /\ result.op = "preview_node_output"
    /\ \E i \in 1..Len(result.execution_order) :
          GetModuleDefinition(result.module_id[result.execution_order[i]]) = None

\* C20: a preview whose node sequence holds a node with a module id that is
\* not in the catalog ends with the module-not-found failure, and no node
\* of the sequence has sent its request or run its transform.
C20_UnknownModuleFailsBeforeAnyIO ==
    UnknownModuleInOrder =>
        /\ result.outcome = "module_not_found"
        /\ result.io = <<>>


(***************************************************************************)
(* CodeExecutor.execute_python and SQLTransformer.execute: one executor    *)
(* called again and again on the same script and dataset.  The call state  *)
(* is kept in result, the wall clock in now.                               *)
(***************************************************************************)
MaxCalls == 2

MaxSandboxTime == 5

\* CodeExecutor(timeout=2)
SandboxTimeout == 2

\* What the submitted code does; "loops_catching" loops forever around a
\* try with a bare except, "mutates_cells" changes in place an object held
\* in a cell of its argument.
Scripts ==
    {"syntax_error", "no_transform", "returns_frame", "returns_value", "raises",
     "loops", "loops_catching", "mutates_arg", "mutates_global", "mutates_cells"}

LoopingScripts == {"loops", "loops_catching"}

\* A DataFrame: its columns, and the reference its object cells hold (None
\* for a frame of scalars only).
Frames ==
    {[columns |-> {"col1"}, cells |-> None],
     [columns |-> {"col1"}, cells |-> Some(1)]}

\* df.copy(): a new frame with the same columns whose object cells refer to
\* the same Python objects.
DfCopy(frames, i) == Append(frames, frames[i])

\* The caller's dataset as the caller reads it after the call.
CallerDataset(call) ==
    [columns |-> call.frames[1].columns,
     cells |-> IF call.frames[1].cells = None THEN None ELSE Some(call.heap)]

\* A query of SQLTransformer: how con.execute ends and how long it runs.
Queries ==
    [ends : {"returns", "raises"}, duration : {0, SandboxTimeout + 1}]

InitSandbox ==
    /\ executions = <<>>
    /\ dagRuns = <<>>
    /\ queue = {}
    /\ dispatching = {}
    /\ dagFiles = {}
    /\ now = 0
    /\ nodes = {}
    /\ edges = <<>>
    /\ result \in {[op |-> "execute_python", script |-> s, pc |-> "idle",
                    alarm |-> None, outcome |-> None, calls |-> 0,
                    frames |-> <<f>>, heap |-> "original", before |-> None,
                    iteration |-> 0] :
                        s \in Scripts, f \in Frames}
                \cup {[op |-> "sql_execute", query |-> q, pc |-> "idle",
                       started |-> 0, outcome |-> None, calls |-> 0,
                       open |-> {}] : q \in Queries}
    /\ schedules = <<>>
    /\ scans = <<>>
    /\ dispatched = <<>>

SandboxRunning == result.pc \in {"exec", "call", "looping"}

\* Leaving "with time_limit" by return or exception: signal.alarm(0).
Exit(call, outcome) ==
    [call EXCEPT !.pc = "done", !.alarm = None, !.outcome = Some(outcome)]

\* execute_python up to the entry of time_limit: safe_globals holds
\* df.copy(), the handler is installed and the alarm armed.
ExecutePython ==
    /\ result.op = "execute_python"
    /\ result.pc \in {"idle", "done"}
    /\ result.calls < MaxCalls
    /\ now + SandboxTimeout <= MaxSandboxTime
    /\ result' = [result EXCEPT
            !.pc = "exec", !.calls = @ + 1, !.outcome = None,
            !.frames = DfCopy(<<result.frames[1]>>, 1),
            !.before = Some(CallerDataset(result)),
            !.alarm = Some(now + SandboxTimeout)]
    /\ UNCHANGED <<nodes, edges, now>>
    /\ UNCHANGED <<execVars, schedVars>>

\* exec(code, safe_globals, safe_locals) and the lookup of the function.
ExecCode ==
    /\ result.op = "execute_python"
    /\ result.pc = "exec"
    /\ result' =
        CASE result.script = "syntax_error" ->
                \* except SyntaxError: raise ValueError
                Exit(result, "ValueError")
          [] result.script = "no_transform" ->
                \* the ValueError of the lookup is caught by except Exception
                Exit(result, "RuntimeError")
          [] result.script = "mutates_global" ->
                [result EXCEPT !.pc = "call",
                               !.frames[2].columns = @ \cup {"new_column"}]
          [] OTHER -> [result EXCEPT !.pc = "call"]
    /\ UNCHANGED <<nodes, edges, now>>
    /\ UNCHANGED <<execVars, schedVars>>

\* result = transform_func(df.copy()) and the isinstance check.
TransformCall ==
    /\ result.op = "execute_python"
    /\ result.pc = "call"
    /\ LET called == [result EXCEPT !.frames = DfCopy(@, 1)] IN
        result' =
            CASE result.script \in LoopingScripts ->
                    [called EXCEPT !.pc = "looping"]
              [] result.script = "returns_value" ->
                    \* the TypeError is caught by except Exception
                    Exit(called, "RuntimeError")
              [] result.script = "raises" -> Exit(called, "RuntimeError")
              [] result.script = "mutates_arg" ->
                    Exit([called EXCEPT !.frames[3].columns = @ \cup {"new_column"}],
                         "returned")
              [] result.script = "mutates_cells" ->
                    Exit([called EXCEPT !.heap =
                              IF called.frames[3].cells = None THEN @ ELSE "mutated"],
                         "returned")
              [] OTHER -> Exit(called, "returned")
    /\ UNCHANGED <<nodes, edges, now>>
    /\ UNCHANGED <<execVars, schedVars>>

\* SIGALRM at the deadline: timeout_handler raises TimeoutException at the
\* instruction the script is at.  Inside the try of a script that catches
\* everything the exception is swallowed and the loop goes on, with the
\* alarm spent; anywhere else it leaves time_limit and is raised again.
AlarmFires(inside_try) ==
    /\ result.op = "execute_python"
    /\ SandboxRunning
    /\ result.alarm # None
    /\ now >= result.alarm[1]
    /\ inside_try => (result.pc = "looping" /\ result.script = "loops_catching")
    /\ result' = IF inside_try
                 THEN [result EXCEPT !.alarm = None]
                 ELSE Exit(result, "TimeoutException")
    /\ UNCHANGED <<nodes, edges, now>>
    /\ UNCHANGED <<execVars, schedVars>>

\* One more turn of the script's "while True".
ScriptLoops ==
    /\ result.op = "execute_python"
    /\ result.pc = "looping"
    /\ result' = [result EXCEPT !.iteration = 1 - @]
    /\ UNCHANGED <<nodes, edges, now>>
    /\ UNCHANGED <<execVars, schedVars>>

\* A second of wall clock; an armed alarm is delivered at its deadline.
SandboxTick ==
    /\ now < MaxSandboxTime
    /\ (result.op = "execute_python" /\ SandboxRunning /\ result.alarm # None)
            => now < result.alarm[1]
    /\ (result.op = "sql_execute" /\ result.pc = "running")
            => now < result.started + result.query.duration
    /\ now' = now + 1
    /\ UNCHANGED <<nodes, edges, result>>
    /\ UNCHANGED <<execVars, schedVars>>


\* SQLTransformer.execute up to con.execute: the connection is opened and
\* the frame registered; the timeout of the config is stored by __init__
\* and read nowhere.
SqlExecute ==
    /\ result.op = "sql_execute"
    /\ result.pc \in {"idle", "done"}
    /\ result.calls < MaxCalls
    /\ now + SandboxTimeout + 1 <= MaxSandboxTime
    /\ result' = [result EXCEPT
            !.pc = "running", !.calls = @ + 1, !.outcome = None,
            !.started = now, !.open = @ \cup {result.calls + 1}]
    /\ UNCHANGED <<nodes, edges, now>>
    /\ UNCHANGED <<execVars, schedVars>>

\* con.execute(query).fetchdf() ends: con.close() and the return, or the
\* except clause, which raises RuntimeError and closes nothing.
SqlQueryEnds ==
    /\ result.op = "sql_execute"
    /\ result.pc = "running"
    /\ now = result.started + result.query.duration
    /\ result' =
        IF result.query.ends = "returns"
        THEN [result EXCEPT !.pc = "done", !.outcome = Some("returned"),
                            !.open = @ \ {result.calls}]
        ELSE [result EXCEPT !.pc = "done", !.outcome = Some("RuntimeError")]
    /\ UNCHANGED <<nodes, edges, now>>
    /\ UNCHANGED <<execVars, schedVars>>

NextSandbox ==
    \/ ExecutePython
    \/ ExecCode
    \/ TransformCall
    \/ \E inside_try \in BOOLEAN : AlarmFires(inside_try)
    \/ ScriptLoops
    \/ SqlExecute
    \/ SqlQueryEnds
    \/ SandboxTick

\* The interpreter runs the call on, the kernel delivers the alarm and the
\* clock advances.
SpecSandbox ==
    /\ InitSandbox
    /\ [][NextSandbox]_vars
    /\ WF_vars(ExecCode)
    /\ WF_vars(TransformCall)
    /\ WF_vars(\E inside_try \in BOOLEAN : AlarmFires(inside_try))
    /\ WF_vars(ScriptLoops)
    /\ WF_vars(SqlQueryEnds)
    /\ WF_vars(SandboxTick)


(***************************************************************************)
(* Claims about the sandbox, checked under SpecSandbox.                    *)
(***************************************************************************)

PythonCallEnded == result.op = "execute_python" /\ result.pc = "done"

\* C21: no alarm stays armed once a call of execute_python has been left,
\* and every call of a script that loops forever ends, raising the timeout
\* exception.
C21_LoopingScriptTimesOutAndDisarms ==
    /\ [](PythonCallEnded => result.alarm = None)
    /\ (result.op = "execute_python" /\ result.script \in LoopingScripts
            /\ SandboxRunning)
        ~> (PythonCallEnded /\ result.outcome = Some("TimeoutException"))

\* C22: a call of SQLTransformer.execute is never still running after its
\* timeout window, and once it has been left, by return or by exception,
\* no connection that it opened is open.
C22_SqlTimeoutAndConnectionRelease ==
    result.op = "sql_execute" =>
        /\ result.pc = "running" => now <= result.started + SandboxTimeout
        /\ result.pc = "done" => result.open = {}

\* C23: after a call of execute_python has been left, whatever the script
\* did, the caller's dataset reads as it did before the call.
C23_CallerDatasetUntouched ==
    PythonCallEnded => Some(CallerDataset(result)) = result.before

\* C24: a call on code with a syntax error ends with SyntaxError, and a call
\* whose transform returns something other than a DataFrame ends with
\* TypeError.
C24_ErrorClassKept ==
    PythonCallEnded =>
        /\ result.script = "syntax_error" => result.outcome = Some("SyntaxError")
        /\ result.script = "returns_value" => result.outcome = Some("TypeError")


(***************************************************************************)
(* Several execute_pipeline tasks of the same pipeline, side by side.      *)
(***************************************************************************)
MaxConcurrent == 2

NextDispatch ==
    \/ ExecutePipelineCreateUpTo(MaxConcurrent)
    \/ \E e \in 1..MaxConcurrent : ExecutePipelineTriggered(e)
    \/ \E e \in 1..MaxConcurrent : ExecutePipelineFailed(e)
    \/ \E r \in 1..MaxConcurrent : AirflowAdvance(r)
    \/ Tick

SpecDispatch == Init /\ [][NextDispatch]_vars

SpecLive ==
    /\ Init
    /\ [][Next]_vars
    /\ WF_vars(\E e \in ExecIds : ExecutePipelineTriggered(e) \/ ExecutePipelineFailed(e))
    /\ WF_vars(\E e \in ExecIds : CancelPipeline(e, FALSE))
    /\ WF_vars(\E e \in ExecIds : MonitorExecution(e, FALSE, TRUE))
    /\ WF_vars(\E r \in ExecIds : AirflowAdvance(r))

\* The row POST /pipelines/{id}/execute has committed: pending, owned by no
\* execute_pipeline task, without a DAG run.
CreatedByRunRequest(e) ==
    /\ e \in Created
    /\ e \notin dispatching
    /\ executions[e].status = "pending"
    /\ executions[e].airflow_dag_run_id = None

\* C26: an Execution created by a run request is eventually in a terminal
\* status (so it eventually leaves pending), under the fairness of SpecLive.
C26_RunRequestReachesTerminal ==
    \A e \in ExecIds :
        CreatedByRunRequest(e) ~>
            (e \in Created /\ executions[e].status \in TerminalStatuses)


(***************************************************************************)
(* The schedules with a fair beat and a fair worker: the scan is started   *)
(* again and again, a started scan goes through its list, and the clock    *)
(* reaches the occurrences that are due.                                   *)
(***************************************************************************)
SpecSchedLive ==
    /\ InitSched
    /\ [][NextSched]_vars
    /\ WF_vars(\E w \in ScanWorkers : CheckScheduledPipelinesStart(w))
    /\ WF_vars(\E w \in ScanWorkers, s \in SchedIds : CheckScheduledPipelinesStep(w, s, "ok"))
    /\ WF_vars(\E s \in SchedIds : ClockPassesDue(s))

FiredByScan(s) ==
    \E i \in DOMAIN dispatched :
        dispatched[i].schedule = s /\ dispatched[i].by = "scan"

\* C27: a schedule that is active with frequency once is eventually fired by
\* the scan, unless a request pauses it or changes its frequency first: it
\* does not stay active for ever without a run.
C27_OnceScheduleEventuallyFires ==
    \A s \in SchedIds :
        (s \in Existing /\ schedules[s].frequency = "once"
            /\ schedules[s].status = "active")
        ~> (s \in Existing /\
              (\/ FiredByScan(s)
               \/ schedules[s].frequency # "once"
               \/ schedules[s].status # "active"))


\* C28: the row create_schedule stores for a frequency other than once
\* carries a cron expression of five valid fields and a next_run_at,
\* whatever the config of the request sets or leaves out.
C28_StoredCronValidAndNextRunSet ==
    \A s \in Existing :
        schedules[s].frequency # "once" =>
            /\ schedules[s].cron_expression # None
            /\ CronValid(schedules[s].cron_expression)
            /\ schedules[s].next_run_at # None


(***************************************************************************)
(* More claims about the Execution rows, checked under Spec.               *)
(***************************************************************************)

\* C29: an Execution in status running carries a DAG run id, and no step
\* changes or clears the DAG run id of a row that has one.
C29_RunningHasRunIdAndRunIdKept ==
    /\ [](\A e \in Created :
            executions[e].status = "running" => executions[e].airflow_dag_run_id # None)
    /\ [][\A e \in Created :
            executions[e].airflow_dag_run_id # None =>
                executions'[e].airflow_dag_run_id = executions[e].airflow_dag_run_id]_vars

\* A row that has its DAG run id has been polled and then cancelled.
C29_Witness ==
    \E e \in Created :
        /\ executions[e].airflow_dag_run_id # None
        /\ executions[e].status = "cancelled"
        /\ executions[e].duration_seconds # None


(***************************************************************************)
(* More claims about the scan, checked under SpecSched.                    *)
(***************************************************************************)

\* C30: a step of the scan that submits a run of a schedule finds the
\* schedule's row active: it submits no run of a schedule that a request
\* has paused, or that has expired, since the scan read its list.
C30_ScanDispatchesOnlyActive ==
    [][\A s \in Existing :
          (Fires(s) /\ dispatched'[Len(dispatched')].by = "scan")
          => schedules[s].status = "active"]_vars

====
